---- MODULE Spec2Model ----
(***************************************************************************)
(* Model of leadfact/ipdefiner, src/main.go: the CIDR range expansion      *)
(* (Analyzer.analyze, increment) and the concurrent probing of the         *)
(* enumerated hosts (one goroutine per host, sync.WaitGroup join,          *)
(* sync.RWMutex around the shared map).                                    *)
(*                                                                         *)
(* Addresses are 4-byte sequences; the source's byte index k (0..3) is     *)
(* element k+1 of the sequence.  An input string "A.B.C.D/N" is the record *)
(* [addr |-> <<A,B,C,D>>, prefix |-> N]; a string with no such shape       *)
(* ("not-an-address") is [addr |-> <<>>, prefix |-> -1].                   *)
(***************************************************************************)
EXTENDS Integers, Sequences, FiniteSets, TLC

VARIABLES input,                  \* adessWithPrefix, the string given to analyze
          pc,                     \* position of Analyzer.analyze
          networkIP,              \* network.IP, advanced in place by increment
          numberOfAddessOnes,     \* network.Mask.Size(): ones
          numberOfAddressBits,    \* network.Mask.Size(): bits
          maximumNumberOfHostst,  \* loop bound
          i,                      \* loop variable
          tasks,                  \* the goroutines started so far, in dispatch order
          addressPool,            \* map[*net.IP]bool; a key is the task owning the pointed-to ip
          mu,                     \* a.mu: 0 when free, else the task holding it
          wg,                     \* a.wg counter
          ret,                    \* what analyze returned
          showOnlyUsedIPs,        \* main: the -u flag
          mainPc,                 \* main: position of the analysis goroutine (src/main.go:56)
          pool,                   \* main: which map the variable pool holds
          loaderPc,               \* main: position of the loading goroutine (src/main.go:59)
          count,                  \* loading goroutine: count
          msg,                    \* loading goroutine: number of dots after "loading" in msg
          textView                \* what was written to the text view since its last Clear

\* the variables of main
mainVars == <<showOnlyUsedIPs, mainPc, pool, loaderPc, count, msg, textView>>

vars == <<input, pc, networkIP, numberOfAddessOnes, numberOfAddressBits,
          maximumNumberOfHostst, i, tasks, addressPool, mu, wg, ret,
          showOnlyUsedIPs, mainPc, pool, loaderPc, count, msg, textView>>

----------------------------------------------------------------------------
(* Bounds of the model *)

\* the concurrent specification takes blocks with at most this many host bits
MaxHostBits == 2

----------------------------------------------------------------------------
(* Constants of the program *)

\* pinger.Count
Count == 2

\* an IPv4 address has 4 bytes, a mask 32 bits
IPv4len == 4

Pow2(n) == 2 ^ n

Min(a, b) == IF a < b THEN a ELSE b

Max(a, b) == IF a > b THEN a ELSE b

\* element of an address at the source's 0-based index
At(ip, idx) == ip[idx + 1]

----------------------------------------------------------------------------
(* net.ParseCIDR and net.IPMask.Size, as analyze uses them *)

\* number of mask bits set inside byte idx of a /ones mask
OnesInByte(ones, idx) == Max(0, Min(8, ones - 8 * idx))

\* b AND the mask byte with its k high bits set
MaskByte(b, k) == (b \div Pow2(8 - k)) * Pow2(8 - k)

\* ip.Mask(CIDRMask(ones, 32))
MaskIP(addr, ones) == [k \in 1..IPv4len |-> MaskByte(addr[k], OnesInByte(ones, k - 1))]

ParseCIDR(s) ==
    IF /\ Len(s.addr) = IPv4len
       /\ \A k \in 1..IPv4len : s.addr[k] \in 0..255
       /\ s.prefix \in 0..(8 * IPv4len)
    THEN [err |-> FALSE, ip |-> MaskIP(s.addr, s.prefix), ones |-> s.prefix, bits |-> 8 * IPv4len]
    ELSE [err |-> TRUE, ip |-> <<>>, ones |-> 0, bits |-> 0]

----------------------------------------------------------------------------
(* increment, src/main.go:181 *)

RECURSIVE ScanOctet(_, _)
\* the loop `for (*address)[lastOctet] == 254 { lastOctet++ }`; an index past
\* the address is the runtime's index-out-of-range fault, reported as -1
ScanOctet(address, lastOctet) ==
    IF lastOctet < 0 \/ lastOctet >= Len(address) THEN -1
    ELSE IF At(address, lastOctet) = 254 THEN ScanOctet(address, lastOctet + 1)
    ELSE lastOctet

\* increment without the scan over bytes equal to 254: the chosen byte is
\* raised whatever it holds, and wraps from 255 to 0
incrementNoScan(address, lastOctet, numberToIcrementBy) ==
    IF lastOctet = 3 /\ At(address, lastOctet) = 255
    THEN [fault |-> FALSE, ip |-> address]
    ELSE IF lastOctet < 0 \/ lastOctet >= Len(address)
         THEN [fault |-> TRUE, ip |-> address]
         ELSE [fault |-> FALSE,
               ip |-> [address EXCEPT ![lastOctet + 1] = (@ + numberToIcrementBy) % 256]]

\* increment with the guard's && written as ||
incrementStuck(address, lastOctet, numberToIcrementBy) ==
    IF lastOctet = 3 \/ At(address, lastOctet) = 255
    THEN [fault |-> FALSE, ip |-> address]
    ELSE LET l == ScanOctet(address, lastOctet) IN
         IF l = -1
         THEN [fault |-> TRUE, ip |-> address]
         ELSE [fault |-> FALSE,
               ip |-> [address EXCEPT ![l + 1] = (@ + numberToIcrementBy) % 256]]

increment(address, lastOctet, numberToIcrementBy) ==
    IF lastOctet = 3 /\ At(address, lastOctet) = 255
    THEN [fault |-> FALSE, ip |-> address]
    ELSE LET l == ScanOctet(address, lastOctet) IN
         IF l = -1
         THEN [fault |-> TRUE, ip |-> address]
         ELSE [fault |-> FALSE,
               ip |-> [address EXCEPT ![l + 1] = (@ + numberToIcrementBy) % 256]]

\* int(math.Round(float64(numberOfAddessOnes/8))): the division is Go's integer division
LastOctet(ones) == ones \div 8

\* the host count with only one of the two reserved addresses subtracted
MaxHostsMinusOne(bits, ones) == Pow2(bits - ones) - 1

\* 1<<(numberOfAddressBits-numberOfAddessOnes) - 2
MaxHosts(bits, ones) == Pow2(bits - ones) - 2

----------------------------------------------------------------------------
(* pingAddress, src/main.go:163 *)

\* pingAddress asking for more than one reply
pingAddressTwoReplies(runErr, recv) ==
    IF runErr THEN [used |-> FALSE, err |-> TRUE]
    ELSE IF recv > 1 THEN [used |-> TRUE, err |-> FALSE]
    ELSE [used |-> FALSE, err |-> FALSE]

\* pingAddress reporting a failed run as "no reply"
pingAddressSwallowErr(runErr, recv) ==
    IF runErr THEN [used |-> FALSE, err |-> FALSE]
    ELSE IF recv > 0 THEN [used |-> TRUE, err |-> FALSE]
    ELSE [used |-> FALSE, err |-> FALSE]

\* runErr: pinger.Run() failed; recv: pinger.PacketsRecv
pingAddress(runErr, recv) ==
    IF runErr THEN [used |-> FALSE, err |-> TRUE]
    ELSE IF recv > 0 THEN [used |-> TRUE, err |-> FALSE]
    ELSE [used |-> FALSE, err |-> FALSE]

----------------------------------------------------------------------------
(* Inputs *)

Garbage == [addr |-> <<>>, prefix |-> -1]

\* a host address inside a block that ends at x.x.x.255
ConcAddrs == {<<192, 168, 1, 253>>}

\* inputs of the concurrent specification: small blocks, /31, /32, an
\* out-of-range prefix, an out-of-range octet and a string that is no CIDR
ConcInputs ==
    {[addr |-> a, prefix |-> p] : a \in ConcAddrs, p \in (8 * IPv4len - MaxHostBits)..(8 * IPv4len + 1)}
      \cup {Garbage, [addr |-> <<10, 0, 0, 256>>, prefix |-> 30]}

EnumAddrs == {<<10, 0, 0, 0>>, <<10, 0, 254, 77>>, <<192, 168, 1, 255>>}

EnumPrefixes == {2, 7, 8, 15, 16, 22, 23, 24, 25, 28, 30, 31, 32}

\* inputs of the enumeration specification: valid blocks of every size class
EnumInputs == {[addr |-> a, prefix |-> p] : a \in EnumAddrs, p \in EnumPrefixes}

----------------------------------------------------------------------------
(* State machine *)

InitWith(inputs) ==
    /\ input \in inputs
    /\ pc = "parse"
    /\ networkIP = <<>>
    /\ numberOfAddessOnes = 0
    /\ numberOfAddressBits = 0
    /\ maximumNumberOfHostst = 0
    /\ i = 0
    /\ tasks = <<>>
    /\ addressPool = <<>>
    /\ mu = 0
    /\ wg = 0
    /\ ret = [pool |-> "none", err |-> "none"]

\* main up to the call of analyze, src/main.go:28-75: the flag is read, the
\* text view is empty, pool holds the empty map of line 57 and the loading
\* goroutine has been started
MainInit(flags) ==
    /\ showOnlyUsedIPs \in flags
    /\ mainPc = "analyze"
    /\ pool = "initial"
    /\ loaderPc = "check"
    /\ count = 0
    /\ msg = 0
    /\ textView = <<>>

Init == InitWith(ConcInputs) /\ MainInit({FALSE})

InitEnum == InitWith(EnumInputs) /\ MainInit({FALSE})

\* analyze discarding ParseCIDR's error: the nil network faults at network.Mask
AnalyzeParseIgnoreErr ==
    /\ pc = "parse"
    /\ LET r == ParseCIDR(input) IN
       IF r.err
       THEN /\ pc' = "panic"
            /\ UNCHANGED <<networkIP, numberOfAddessOnes, numberOfAddressBits,
                           maximumNumberOfHostst, i, ret>>
       ELSE /\ pc' = "loop"
            /\ networkIP' = r.ip
            /\ numberOfAddessOnes' = r.ones
            /\ numberOfAddressBits' = r.bits
            /\ maximumNumberOfHostst' = MaxHosts(r.bits, r.ones)
            /\ i' = 1
            /\ ret' = ret
    /\ UNCHANGED mainVars
    /\ UNCHANGED <<input, tasks, addressPool, mu, wg>>

\* src/main.go:130-138 and the loop initialisation i := 1
AnalyzeParse ==
    /\ pc = "parse"
    /\ LET r == ParseCIDR(input) IN
       IF r.err
       THEN /\ pc' = "error"
            /\ ret' = [pool |-> "nil", err |-> "Invalid address"]
            /\ UNCHANGED <<networkIP, numberOfAddessOnes, numberOfAddressBits,
                           maximumNumberOfHostst, i>>
       ELSE /\ pc' = "loop"
            /\ networkIP' = r.ip
            /\ numberOfAddessOnes' = r.ones
            /\ numberOfAddressBits' = r.bits
            /\ maximumNumberOfHostst' = MaxHosts(r.bits, r.ones)
            /\ i' = 1
            /\ ret' = ret
    /\ UNCHANGED mainVars
    /\ UNCHANGED <<input, tasks, addressPool, mu, wg>>

\* a goroutine as `go func(ip net.IP)` starts it, src/main.go:146
\* runErr and replied are what the task's pinger ended with (pinger.Run()
\* failed; at least one echo reply arrived), used is the goroutine's local,
\* writes counts the task's map assignments
NewTask(ip) == [ip |-> ip, pc |-> "ping", runErr |-> FALSE, replied |-> FALSE,
                used |-> FALSE, writes |-> 0]

\* the loop dispatching a host only once the tasks before it have finished
AnalyzeLoopSerial ==
    /\ pc = "loop"
    /\ wg = 0
    /\ IF i < maximumNumberOfHostst + 1
       THEN LET r == increment(networkIP, LastOctet(numberOfAddessOnes), 1) IN
            IF r.fault
            THEN /\ pc' = "panic"
                 /\ UNCHANGED <<networkIP, i, tasks, wg>>
            ELSE /\ networkIP' = r.ip
                 /\ tasks' = Append(tasks, NewTask(r.ip))
                 /\ wg' = wg + 1
                 /\ i' = i + 1
                 /\ pc' = pc
       ELSE /\ pc' = "wait"
            /\ UNCHANGED <<networkIP, i, tasks, wg>>
    /\ UNCHANGED mainVars
    /\ UNCHANGED <<input, numberOfAddessOnes, numberOfAddressBits,
                   maximumNumberOfHostst, addressPool, mu, ret>>

\* one evaluation of the loop condition and, when it holds, one iteration:
\* src/main.go:140-157.  A fault inside increment aborts the program.
AnalyzeLoop ==
    /\ pc = "loop"
    /\ IF i < maximumNumberOfHostst + 1
       THEN LET r == increment(networkIP, LastOctet(numberOfAddessOnes), 1) IN
            IF r.fault
            THEN /\ pc' = "panic"
                 /\ UNCHANGED <<networkIP, i, tasks, wg>>
            ELSE /\ networkIP' = r.ip
                 /\ tasks' = Append(tasks, NewTask(r.ip))
                 /\ wg' = wg + 1
                 /\ i' = i + 1
                 /\ pc' = pc
       ELSE /\ pc' = "wait"
            /\ UNCHANGED <<networkIP, i, tasks, wg>>
    /\ UNCHANGED mainVars
    /\ UNCHANGED <<input, numberOfAddessOnes, numberOfAddressBits,
                   maximumNumberOfHostst, addressPool, mu, ret>>

\* analyze returning without a.wg.Wait()
AnalyzeWaitNoJoin ==
    /\ pc = "wait"
    /\ pc' = "returned"
    /\ ret' = [pool |-> "addressPool", err |-> "nil"]
    /\ UNCHANGED mainVars
    /\ UNCHANGED <<input, networkIP, numberOfAddessOnes, numberOfAddressBits,
                   maximumNumberOfHostst, i, tasks, addressPool, mu, wg>>

\* a.wg.Wait() and the return, src/main.go:158-160
AnalyzeWait ==
    /\ pc = "wait"
    /\ wg = 0
    /\ pc' = "returned"
    /\ ret' = [pool |-> "addressPool", err |-> "nil"]
    /\ UNCHANGED mainVars
    /\ UNCHANGED <<input, networkIP, numberOfAddessOnes, numberOfAddressBits,
                   maximumNumberOfHostst, i, tasks, addressPool, mu, wg>>

\* the process is running: a fault in analyze's goroutine, or log.Fatal in
\* main, ends every goroutine
Alive == pc # "panic" /\ mainPc # "fatal"

\* a task that goes on to the locked write although its probe errored
TaskPingWriteOnErr(t) ==
    /\ Alive
    /\ tasks[t].pc = "ping"
    /\ \E runErr \in BOOLEAN, recv \in 0..Count :
         /\ runErr => recv = 0
         /\ LET r == pingAddress(runErr, recv) IN
            /\ tasks' = [tasks EXCEPT ![t].pc = "lock", ![t].runErr = runErr,
                                      ![t].replied = recv >= 1, ![t].used = r.used]
            /\ wg' = wg
    /\ UNCHANGED mainVars
    /\ UNCHANGED <<input, pc, networkIP, numberOfAddessOnes, numberOfAddressBits,
                   maximumNumberOfHostst, i, addressPool, mu, ret>>

\* pingAddress returns; on an error the goroutine returns and its deferred
\* a.wg.Done() runs, src/main.go:147-151
TaskPing(t) ==
    /\ Alive
    /\ tasks[t].pc = "ping"
    /\ \E runErr \in BOOLEAN, recv \in 0..Count :
         /\ runErr => recv = 0
         /\ LET r == pingAddress(runErr, recv) IN
            IF r.err
            THEN /\ tasks' = [tasks EXCEPT ![t].pc = "done", ![t].runErr = runErr,
                                           ![t].replied = recv >= 1]
                 /\ wg' = wg - 1
            ELSE /\ tasks' = [tasks EXCEPT ![t].pc = "lock", ![t].runErr = runErr,
                                           ![t].replied = recv >= 1, ![t].used = r.used]
                 /\ wg' = wg
    /\ UNCHANGED mainVars
    /\ UNCHANGED <<input, pc, networkIP, numberOfAddessOnes, numberOfAddressBits,
                   maximumNumberOfHostst, i, addressPool, mu, ret>>

\* a task entering the critical section without waiting for the mutex
TaskLockNoWait(t) ==
    /\ Alive
    /\ tasks[t].pc = "lock"
    /\ mu' = t
    /\ tasks' = [tasks EXCEPT ![t].pc = "write"]
    /\ UNCHANGED mainVars
    /\ UNCHANGED <<input, pc, networkIP, numberOfAddessOnes, numberOfAddressBits,
                   maximumNumberOfHostst, i, addressPool, wg, ret>>

\* a.mu.Lock(), src/main.go:153
TaskLock(t) ==
    /\ Alive
    /\ tasks[t].pc = "lock"
    /\ mu = 0
    /\ mu' = t
    /\ tasks' = [tasks EXCEPT ![t].pc = "write"]
    /\ UNCHANGED mainVars
    /\ UNCHANGED <<input, pc, networkIP, numberOfAddessOnes, numberOfAddressBits,
                   maximumNumberOfHostst, i, addressPool, wg, ret>>

\* addressPool[&ip] = used, src/main.go:154; &ip is the task's own parameter
TaskWrite(t) ==
    /\ Alive
    /\ tasks[t].pc = "write"
    /\ addressPool' = [k \in DOMAIN addressPool \cup {t} |->
                          IF k = t THEN tasks[t].used ELSE addressPool[k]]
    /\ tasks' = [tasks EXCEPT ![t].pc = "unlock", ![t].writes = @ + 1]
    /\ UNCHANGED mainVars
    /\ UNCHANGED <<input, pc, networkIP, numberOfAddessOnes, numberOfAddressBits,
                   maximumNumberOfHostst, i, mu, wg, ret>>

\* a.mu.Unlock(), the return and the deferred a.wg.Done(), src/main.go:155, 147
TaskUnlock(t) ==
    /\ Alive
    /\ tasks[t].pc = "unlock"
    /\ mu' = 0
    /\ wg' = wg - 1
    /\ tasks' = [tasks EXCEPT ![t].pc = "done"]
    /\ UNCHANGED mainVars
    /\ UNCHANGED <<input, pc, networkIP, numberOfAddessOnes, numberOfAddressBits,
                   maximumNumberOfHostst, i, addressPool, ret>>

Next ==
    \/ AnalyzeParse
    \/ AnalyzeLoop
    \/ AnalyzeWait
    \/ \E t \in 1..Len(tasks) : TaskPing(t)
    \/ \E t \in 1..Len(tasks) : TaskLock(t)
    \/ \E t \in 1..Len(tasks) : TaskWrite(t)
    \/ \E t \in 1..Len(tasks) : TaskUnlock(t)

Spec == Init /\ [][Next]_vars

\* the enumeration on its own: analyze's goroutine runs from the parse to the
\* end of its loop while the started goroutines have not yet been scheduled
NextEnum ==
    \/ AnalyzeParse
    \/ AnalyzeLoop

SpecEnum == InitEnum /\ [][NextEnum]_vars

----------------------------------------------------------------------------
(* Vocabulary of the properties *)

TaskIds == 1..Len(tasks)

ValidInput == ~ParseCIDR(input).err

HostBits == 8 * IPv4len - input.prefix

\* the network address of the parsed prefix (networkIP itself moves on)
Network == MaskIP(input.addr, input.prefix)

\* the network address with every host bit set
Broadcast ==
    [k \in 1..IPv4len |-> Network[k] + Pow2(8 - OnesInByte(input.prefix, k - 1)) - 1]

\* byte-lexicographic (big-endian) order, bytes.Compare(a, b) < 0
Less(a, b) ==
    \E k \in 1..IPv4len : a[k] < b[k] /\ \A j \in 1..(k - 1) : a[j] = b[j]

\* ip + n as a 32-bit big-endian integer, computed bytewise with carry
AddInt(ip, n) ==
    LET s3 == ip[4] + n
        s2 == ip[3] + s3 \div 256
        s1 == ip[2] + s2 \div 256
        s0 == ip[1] + s1 \div 256
    IN <<s0 % 256, s1 % 256, s2 % 256, s3 % 256>>

InsideBlock(ip) == Less(Network, ip) /\ Less(ip, Broadcast)

\* the loop of analyze is over: it ran to its bound or the program faulted
LoopEnded == pc \in {"wait", "returned", "panic"}

\* the address a key of the pool points to
KeyIP(k) == tasks[k].ip

----------------------------------------------------------------------------
(* C1..C10 *)

\* C1: analyze returns only after every task it dispatched has finished,
\* whether it wrote or its probe errored: once analyze has returned the pool,
\* no task is probing, waiting for the lock, or inside the critical section.
C1_ReturnAfterJoin ==
    pc = "returned" =>
        /\ Len(tasks) = Max(0, maximumNumberOfHostst)
        /\ \A t \in TaskIds : tasks[t].pc = "done"
        /\ mu = 0

C1_Witness ==
    /\ pc = "returned"
    /\ \E t \in TaskIds : tasks[t].runErr
    /\ \E t \in TaskIds : t \in DOMAIN addressPool

\* C2 as stated: for every valid CIDR every address in the pool, and every
\* address handed to a probing task, lies strictly between the network address
\* and the broadcast address of the parsed prefix.
C2_OnlyHostsOfBlock ==
    ValidInput =>
        /\ \A k \in DOMAIN addressPool : InsideBlock(KeyIP(k))
        /\ \A t \in TaskIds : InsideBlock(tasks[t].ip)

\* C3 as stated: for every valid CIDR with at least 2 host bits, the loop of
\* analyze dispatches exactly 2^hostBits - 2 probes.
C3_HostCount ==
    (ValidInput /\ HostBits >= 2 /\ LoopEnded) => Len(tasks) = Pow2(HostBits) - 2

\* C4 as stated: for every valid CIDR the k-th address enumerated is the
\* network address plus k, and the enumeration makes exactly maxHosts steps.
C4_NetworkPlusK ==
    ValidInput =>
        /\ \A k \in TaskIds : tasks[k].ip = AddInt(Network, k)
        /\ LoopEnded => Len(tasks) = Max(0, Pow2(HostBits) - 2)

\* C5: at most one task is inside the pool-write critical section (between
\* a.mu.Lock() and a.mu.Unlock()) at any time.
C5_MutualExclusion ==
    /\ Cardinality({t \in TaskIds : tasks[t].pc \in {"write", "unlock"}}) <= 1
    /\ \A t \in TaskIds : tasks[t].pc \in {"write", "unlock"} => mu = t

C5_Witness ==
    \E t, u \in TaskIds : tasks[t].pc = "write" /\ tasks[u].pc = "lock"

\* C6: when analyze returns, the pool has exactly one entry per dispatched
\* address whose probe ran without error and none for an address whose probe
\* errored; the entry is true iff the probe received at least one reply.
C6_PoolIsUnionOfProbes ==
    pc = "returned" =>
        \A t \in TaskIds :
            LET entries == {k \in DOMAIN addressPool : KeyIP(k) = tasks[t].ip} IN
            IF tasks[t].runErr
            THEN entries = {}
            ELSE /\ Cardinality(entries) = 1
                 /\ \A k \in entries : addressPool[k] = tasks[t].replied

C6_Witness ==
    /\ pc = "returned"
    /\ \E t \in TaskIds : tasks[t].runErr /\ t \notin DOMAIN addressPool
    /\ \E t \in TaskIds : tasks[t].replied /\ t \in DOMAIN addressPool /\ addressPool[t]

\* C7: for an input that does not parse as a CIDR block analyze returns the
\* error and no pool, and no probe task is ever started.
C7_InvalidInputRejected ==
    ParseCIDR(input).err =>
        /\ tasks = <<>> /\ wg = 0 /\ DOMAIN addressPool = {}
        /\ pc \in {"parse", "error"}
        /\ pc = "error" => ret = [pool |-> "nil", err |-> "Invalid address"]

C7_Witness ==
    /\ pc = "error"
    /\ input.prefix = 8 * IPv4len + 1
    /\ tasks = <<>>

\* C8: the error return depends only on format validity: a valid CIDR never
\* yields the error return, a return carries a nil error whatever the probes
\* did, and when every probe errored the returned pool is empty.
C8_ErrorOnlyFromFormat ==
    /\ ValidInput =>
        /\ pc # "error"
        /\ ret.err \in {"none", "nil"}
        /\ pc = "returned" =>
             /\ ret = [pool |-> "addressPool", err |-> "nil"]
             /\ (\A t \in TaskIds : tasks[t].runErr) => DOMAIN addressPool = {}
    /\ ret.err = "Invalid address" => ~ValidInput

C8_Witness ==
    /\ pc = "returned"
    /\ Len(tasks) >= 2
    /\ \A t \in TaskIds : tasks[t].runErr
    /\ DOMAIN addressPool = {}

\* C9: for /31 and /32 the host count is 0 or -1, the loop body never runs
\* (no increment call, no task), nothing faults, and analyze returns an empty
\* pool with a nil error.
C9_DegenerateRanges ==
    (ValidInput /\ input.prefix \in {8 * IPv4len - 1, 8 * IPv4len}) =>
        /\ pc # "parse" => /\ maximumNumberOfHostst = (IF input.prefix = 8 * IPv4len THEN -1 ELSE 0)
                           /\ i = 1
                           /\ networkIP = Network
        /\ tasks = <<>> /\ wg = 0
        /\ pc \in {"parse", "loop", "wait", "returned"}
        /\ pc = "returned" => /\ DOMAIN addressPool = {}
                              /\ ret = [pool |-> "addressPool", err |-> "nil"]

C9_Witness ==
    /\ pc = "returned"
    /\ input.prefix = 8 * IPv4len
    /\ maximumNumberOfHostst = -1

\* C10: a task writes the pool at most once, no address is handed to two
\* tasks, and the pool never holds two entries with the same address.
C10_NoDuplicateAddress ==
    /\ \A t \in TaskIds : tasks[t].writes <= 1
    /\ \A t, u \in TaskIds : t # u => tasks[t].ip # tasks[u].ip
    /\ \A k, l \in DOMAIN addressPool : k # l => KeyIP(k) # KeyIP(l)

C10_Witness ==
    /\ pc = "returned"
    /\ Cardinality(DOMAIN addressPool) >= 2
    /\ \A t \in TaskIds : tasks[t].writes = 1

----------------------------------------------------------------------------
(* main, src/main.go:27: the analysis goroutine and the loading goroutine *)

\* the inputs of the specification of main: a block with 2 hosts, a block
\* with none and a string that is no CIDR
MainInputs ==
    {[addr |-> <<192, 168, 1, 253>>, prefix |-> 30],
     [addr |-> <<192, 168, 1, 253>>, prefix |-> 32],
     Garbage}

InitMain == InitWith(MainInputs) /\ MainInit(BOOLEAN)

\* len(pool) of the map the variable pool holds: the empty map of line 57,
\* the nil map of a failed analyze, or the map analyze returned
PoolLen ==
    IF pool = "result" THEN Cardinality(DOMAIN addressPool) ELSE 0

\* the lengths a read of pool by the loading goroutine can see: pool is
\* assigned at line 75 without synchronisation, so the read sees the map of
\* line 57 (always empty) or the map pool holds now
PoolViews == {0, PoolLen}

\* pool, err = analyzer.analyze(...) once analyze has returned, and
\* log.Fatal(err) on an error; src/main.go:75-78
MainAssign ==
    /\ Alive
    /\ mainPc = "analyze"
    /\ pc \in {"returned", "error"}
    /\ IF pc = "error"
       THEN pool' = "nil" /\ mainPc' = "fatal"
       ELSE pool' = "result" /\ mainPc' = "clear"
    /\ UNCHANGED <<showOnlyUsedIPs, loaderPc, count, msg, textView>>
    /\ UNCHANGED <<input, pc, networkIP, numberOfAddessOnes, numberOfAddressBits,
                   maximumNumberOfHostst, i, tasks, addressPool, mu, wg, ret>>

\* textView.Clear(), src/main.go:80
MainClear ==
    /\ Alive
    /\ mainPc = "clear"
    /\ textView' = <<>>
    /\ mainPc' = "header"
    /\ UNCHANGED <<showOnlyUsedIPs, pool, loaderPc, count, msg>>
    /\ UNCHANGED <<input, pc, networkIP, numberOfAddessOnes, numberOfAddressBits,
                   maximumNumberOfHostst, i, tasks, addressPool, mu, wg, ret>>

\* the keys main keeps: src/main.go:82-88
ShownKeys == {k \in DOMAIN addressPool : ~(showOnlyUsedIPs /\ ~addressPool[k])}

RECURSIVE SortKeys(_)
\* sort.Slice by bytes.Compare of the addresses, src/main.go:90-92
SortKeys(K) ==
    IF K = {} THEN <<>>
    ELSE LET m == CHOOSE k \in K : \A j \in K : ~Less(KeyIP(j), KeyIP(k))
         IN <<m>> \o SortKeys(K \ {m})

\* the cells written by the loops of src/main.go:96-110, in order
Cells ==
    LET ips == SortKeys(ShownKeys) IN
    [n \in 1..Len(ips) |->
        [ip |-> KeyIP(ips[n]),
         status |-> IF addressPool[ips[n]] THEN "used" ELSE "free"]]

\* the header line, src/main.go:82-94
MainHeader ==
    /\ Alive
    /\ mainPc = "header"
    /\ textView' = Append(textView, [kind |-> "header", text |-> <<input>>])
    /\ mainPc' = "rows"
    /\ UNCHANGED <<showOnlyUsedIPs, pool, loaderPc, count, msg>>
    /\ UNCHANGED <<input, pc, networkIP, numberOfAddessOnes, numberOfAddressBits,
                   maximumNumberOfHostst, i, tasks, addressPool, mu, wg, ret>>

\* the rows of addresses, src/main.go:96-110; nothing is written for no address
MainRows ==
    /\ Alive
    /\ mainPc = "rows"
    /\ textView' = IF Cells = <<>> THEN textView
                   ELSE Append(textView, [kind |-> "rows", text |-> Cells])
    /\ mainPc' = "done"
    /\ UNCHANGED <<showOnlyUsedIPs, pool, loaderPc, count, msg>>
    /\ UNCHANGED <<input, pc, networkIP, numberOfAddessOnes, numberOfAddressBits,
                   maximumNumberOfHostst, i, tasks, addressPool, mu, wg, ret>>

\* the loop condition len(pool) == 0, src/main.go:62; n is the length read
LoaderCheck(n) ==
    /\ Alive
    /\ loaderPc = "check"
    /\ loaderPc' = IF n = 0 THEN "clear" ELSE "exit"
    /\ UNCHANGED <<showOnlyUsedIPs, mainPc, pool, count, msg, textView>>
    /\ UNCHANGED <<input, pc, networkIP, numberOfAddessOnes, numberOfAddressBits,
                   maximumNumberOfHostst, i, tasks, addressPool, mu, wg, ret>>

\* textView.Clear(), src/main.go:63
LoaderClear ==
    /\ Alive
    /\ loaderPc = "clear"
    /\ textView' = <<>>
    /\ loaderPc' = "write"
    /\ UNCHANGED <<showOnlyUsedIPs, mainPc, pool, count, msg>>
    /\ UNCHANGED <<input, pc, networkIP, numberOfAddessOnes, numberOfAddressBits,
                   maximumNumberOfHostst, i, tasks, addressPool, mu, wg, ret>>

\* fmt.Fprintf(textView, "%s", msg), src/main.go:64
LoaderWrite ==
    /\ Alive
    /\ loaderPc = "write"
    /\ textView' = Append(textView, [kind |-> "loading", text |-> <<msg>>])
    /\ loaderPc' = "sleep"
    /\ UNCHANGED <<showOnlyUsedIPs, mainPc, pool, count, msg>>
    /\ UNCHANGED <<input, pc, networkIP, numberOfAddessOnes, numberOfAddressBits,
                   maximumNumberOfHostst, i, tasks, addressPool, mu, wg, ret>>

\* the sleep and the update of msg and count, src/main.go:65-71
LoaderSleep ==
    /\ Alive
    /\ loaderPc = "sleep"
    /\ IF count + 1 = 4
       THEN msg' = 0 /\ count' = 0
       ELSE msg' = msg + 1 /\ count' = count + 1
    /\ loaderPc' = "check"
    /\ UNCHANGED <<showOnlyUsedIPs, mainPc, pool, textView>>
    /\ UNCHANGED <<input, pc, networkIP, numberOfAddessOnes, numberOfAddressBits,
                   maximumNumberOfHostst, i, tasks, addressPool, mu, wg, ret>>

NextMain ==
    \/ AnalyzeParse
    \/ AnalyzeLoop
    \/ AnalyzeWait
    \/ \E t \in 1..Len(tasks) : TaskPing(t)
    \/ \E t \in 1..Len(tasks) : TaskLock(t)
    \/ \E t \in 1..Len(tasks) : TaskWrite(t)
    \/ \E t \in 1..Len(tasks) : TaskUnlock(t)
    \/ MainAssign
    \/ MainClear
    \/ MainHeader
    \/ MainRows
    \/ \E n \in PoolViews : LoaderCheck(n)
    \/ LoaderClear
    \/ LoaderWrite
    \/ LoaderSleep

\* the steps of the analysis goroutine, of task t and of the loading goroutine
AnalysisStep ==
    AnalyzeParse \/ AnalyzeLoop \/ AnalyzeWait \/ MainAssign \/ MainClear
      \/ MainHeader \/ MainRows

TaskStep(t) ==
    t \in 1..Len(tasks) /\ (TaskPing(t) \/ TaskLock(t) \/ TaskWrite(t) \/ TaskUnlock(t))

LoaderStep ==
    (\E n \in PoolViews : LoaderCheck(n)) \/ LoaderClear \/ LoaderWrite \/ LoaderSleep

\* the scheduler runs every goroutine that can run; a probe ends (the pinger
\* has a timeout), sync.Mutex does not starve a waiter, and a goroutine that
\* reads pool again and again comes to see the value assigned to it
Fairness ==
    /\ WF_vars(AnalysisStep)
    /\ \A t \in 1..2 : WF_vars(TaskStep(t)) /\ SF_vars(t \in 1..Len(tasks) /\ TaskLock(t))
    /\ WF_vars(LoaderStep)
    /\ SF_vars(LoaderCheck(PoolLen))

SpecMain == InitMain /\ [][NextMain]_vars /\ Fairness

----------------------------------------------------------------------------
(* C11..C18 *)

\* the call increment(&network.IP, floor(ones/8), 1) is about to be made
IncrementCall == pc = "loop" /\ i < maximumNumberOfHostst + 1

\* C11: the addresses produced by the successive increment calls of one run
\* are strictly increasing in byte-lexicographic order: each is greater than
\* the one before it and greater than the network address.
C11_StrictlyIncreasing ==
    ValidInput =>
        \A k \in TaskIds :
            /\ Less(Network, tasks[k].ip)
            /\ k > 1 => Less(tasks[k - 1].ip, tasks[k].ip)

\* the scan has moved on from a byte saturated at 254 to the next byte
C11_Witness ==
    /\ input.prefix < 24
    /\ \E k \in TaskIds : k > 1 /\ At(tasks[k].ip, 2) = 254 /\ At(tasks[k].ip, 3) = 1
                          /\ At(tasks[k - 1].ip, 3) = 0

\* C12 as stated: every increment call made by analyze changes exactly one
\* byte, the first at or right of index floor(prefix/8) that is not 254,
\* raising it by 1 without wrapping, and leaves the address alone when the
\* start index is 3 and byte 3 is 255.
C12_OneByteRaised ==
    [][IncrementCall =>
         LET L == LastOctet(numberOfAddessOnes) IN
         IF L = 3 /\ At(networkIP, 3) = 255
         THEN networkIP' = networkIP
         ELSE \E l \in L..(IPv4len - 1) :
                 /\ At(networkIP, l) \notin {254, 255}
                 /\ \A j \in L..(l - 1) : At(networkIP, j) = 254
                 /\ networkIP' = [networkIP EXCEPT ![l + 1] = @ + 1]]_vars

\* C13 as stated, in the form a finite run refutes: a run on a valid CIDR
\* whose probes all return is never in a state from which analyze cannot
\* return any more.
C13_NeverAborted ==
    ValidInput => pc # "panic"

\* C16 as stated: for every valid CIDR no increment call made by analyze
\* leaves the 4 bytes of the address: the scan over bytes equal to 254 stops
\* at an index in 0..3.
C16_ScanStaysInside ==
    (ValidInput /\ IncrementCall) =>
        ~increment(networkIP, LastOctet(numberOfAddessOnes), 1).fault

\* C14: no task holds the pool lock while its probe is in progress: the lock
\* is taken only after the probe returned without error and the one thing
\* its holder does after the insertion is to release it; a task whose probe
\* errored never holds it, and a probe in progress blocks neither another
\* task's probe nor, the lock being free, another task's write.
C14_LockOnlyAroundWrite ==
    \A t \in TaskIds :
        /\ tasks[t].pc = "ping" => (mu # t /\ ENABLED TaskPing(t))
        /\ mu = t => /\ ~tasks[t].runErr
                     /\ tasks[t].pc = (IF tasks[t].writes = 0 THEN "write" ELSE "unlock")
                     /\ tasks[t].writes <= 1
        /\ tasks[t].runErr => (mu # t /\ tasks[t].writes = 0 /\ tasks[t].pc = "done")
        /\ (tasks[t].pc = "lock" /\ mu = 0) => ENABLED TaskLock(t)

C14_Witness ==
    \E t, u \in TaskIds : mu = t /\ tasks[t].pc = "write" /\ tasks[u].pc = "ping"

\* tasks dispatched and not yet finished
InFlight == {t \in TaskIds : tasks[t].pc # "done"}

\* C15: dispatch never waits for a probe: whatever the dispatched tasks are
\* doing, the loop can take its next step, and the number of tasks in flight
\* (the WaitGroup counter) is limited by the number of usable hosts only.
C15_DispatchNeverWaits ==
    /\ pc = "loop" => ENABLED AnalyzeLoop
    /\ wg = Cardinality(InFlight)
    /\ Cardinality(InFlight) <= Max(0, maximumNumberOfHostst)

\* all maxHosts tasks are in flight at once, each still probing
C15_Witness ==
    /\ pc = "wait"
    /\ Len(tasks) = maximumNumberOfHostst
    /\ Len(tasks) >= 2
    /\ \A t \in TaskIds : tasks[t].pc = "ping"

\* the analysis goroutine has cleared the text view and is rendering, or has
\* rendered, the results
Rendering == mainPc \in {"header", "rows", "done"}

\* C17 as stated: once analyze has returned successfully (main holds its
\* result), the loading goroutine eventually leaves its loop, whatever the
\* result is.
C17_LoaderExits ==
    (mainPc \in {"clear", "header", "rows", "done"}) ~> (loaderPc = "exit")

\* C18 as stated: once the analysis goroutine has cleared the text view and
\* started rendering, the loading goroutine makes no further Clear and no
\* further write of "loading" on the text view.
C18_NoLoadingAfterRender ==
    [][Rendering => ~(loaderPc \in {"clear", "write"} /\ loaderPc' # loaderPc)]_vars

====
